---- MODULE Spec2Model ----
(***************************************************************************)
(* PrivyPlay: the confidential dice ledger (contracts/PrivyPlay.sol), the  *)
(* ciphertext engine and access control list it drives through the FHE    *)
(* library, and the user-decryption request of the web client.             *)
(*                                                                         *)
(* Solidity's uint256 and the 64-bit ciphertext domain do not fit TLC's    *)
(* integers, so machine integers are little-endian sequences of base-256   *)
(* limbs: 32 limbs for uint256, 8 limbs for uint64.  Arithmetic on them is *)
(* the machine arithmetic: checked for uint256, wrapping for euint64.      *)
(***************************************************************************)
EXTENDS Integers, Sequences, FiniteSets, TLC

(***************************************************************************)
(* Machine integers                                                        *)
(***************************************************************************)
Radix == 256

U256Limbs == 32

U64Limbs == 8

\* the limb sequence f, every limb computed
Limbs(f, n) == SubSeq(f, 1, n)

\* n zero limbs
Zeros(n) == Limbs([i \in 1..n |-> 0], n)

\* the n-limb number of a natural x (x < 2^31, so four limbs hold it)
FromNat(x, n) ==
    Limbs([i \in 1..n |->
              IF i > 4 THEN 0 ELSE (x \div (Radix ^ (i - 1))) % Radix], n)

\* a, extended with zero limbs or cut to its n low limbs
Resize(a, n) ==
    Limbs([i \in 1..n |-> IF i <= Len(a) THEN a[i] ELSE 0], n)

\* TRUE iff every limb of a above the n-th is zero
FitsIn(a, n) == \A i \in 1..Len(a) : i > n => a[i] = 0

IsZero(a) == \A i \in 1..Len(a) : a[i] = 0

\* a < b for two numbers of the same length: the most significant limb in
\* which they differ decides
Lt(a, b) ==
    \E j \in 1..Len(a) :
        /\ a[j] < b[j]
        /\ \A k \in (j + 1)..Len(a) : a[k] = b[k]

Ge(a, b) == ~Lt(a, b)

\* the carry into limb i of a + b + c0: some lower limb generates a carry
\* and every limb between propagates it
CarryInto(a, b, c0, i) ==
    \/ \E j \in 1..(i - 1) :
            /\ a[j] + b[j] >= Radix
            /\ \A k \in (j + 1)..(i - 1) : a[k] + b[k] = Radix - 1
    \/ /\ c0 = 1
       /\ \A k \in 1..(i - 1) : a[k] + b[k] = Radix - 1

\* a + b of two numbers of the same length, one limb longer (no wrap)
AddFull(a, b) ==
    LET n == Len(a)
        c(i) == IF CarryInto(a, b, 0, i) THEN 1 ELSE 0
    IN  Limbs([i \in 1..(n + 1) |->
                  IF i = n + 1 THEN c(i) ELSE (a[i] + b[i] + c(i)) % Radix],
              n + 1)

\* a + b modulo Radix^Len(a)
AddWrap(a, b) == Resize(AddFull(a, b), Len(a))

\* the borrow out of the limbs below i of a - b
BorrowInto(a, b, i) ==
    \E j \in 1..(i - 1) :
        /\ a[j] < b[j]
        /\ \A k \in (j + 1)..(i - 1) : a[k] = b[k]

\* a - b modulo Radix^Len(a)
SubWrap(a, b) ==
    Limbs([i \in 1..Len(a) |->
              (a[i] - b[i] - (IF BorrowInto(a, b, i) THEN 1 ELSE 0) + Radix)
                  % Radix],
          Len(a))

RECURSIVE SumRange(_, _, _)
\* s[lo] + .. + s[hi]
SumRange(s, lo, hi) ==
    IF lo > hi THEN 0
    ELSE IF lo = hi THEN s[lo]
    ELSE SumRange(s, lo, (lo + hi) \div 2)
         + SumRange(s, ((lo + hi) \div 2) + 1, hi)

\* column k of the schoolbook product: the sum of a[i] * b[k - i + 1]
Column(a, b, k) ==
    SumRange(Limbs([i \in 1..Len(a) |->
                       IF k - i + 1 >= 1 /\ k - i + 1 <= Len(b)
                       THEN a[i] * b[k - i + 1] ELSE 0], Len(a)),
             1, Len(a))

\* a * b, Len(a) + Len(b) limbs long (no wrap).  A column is below Radix^3;
\* its three base-Radix digits are added in at limbs k, k + 1 and k + 2.
MulFull(a, b) ==
    LET n == Len(a) + Len(b)
        col == Limbs([k \in 1..n |-> Column(a, b, k)], n)
        digit(t) ==
            Limbs([k \in 1..n |->
                      IF k - t >= 1
                      THEN (col[k - t] \div (Radix ^ t)) % Radix ELSE 0], n)
    IN  AddWrap(AddWrap(digit(0), digit(1)), digit(2))

\* 2 * r + bit modulo Radix^Len(r)
ShiftIn(r, bit) ==
    Limbs([i \in 1..Len(r) |->
              (2 * r[i] + (IF i = 1 THEN bit ELSE r[i - 1] \div (Radix \div 2)))
                  % Radix],
          Len(r))

\* the one element of a one-element set
The(S) == CHOOSE v \in S : TRUE

RECURSIVE DivBits(_, _, _, _, _)
\* binary long division over the bits j-1 .. 0 of one limb x of the dividend:
\* <<the quotient limb, the remainder>>
DivBits(x, b, j, qd, r) ==
    IF j = 0 THEN <<qd, r>>
    ELSE The({ IF Ge(r1, b)
               THEN The({ DivBits(x, b, j - 1, 2 * qd + 1, r2) :
                          r2 \in {SubWrap(r1, b)} })
               ELSE DivBits(x, b, j - 1, 2 * qd, r1) :
               r1 \in {ShiftIn(r, (x \div (2 ^ (j - 1))) % 2)} })

RECURSIVE DivLimbs(_, _, _, _)
\* the limbs i .. 1 of the quotient, dividend limbs brought down from the top
DivLimbs(a, b, i, r) ==
    IF i = 0 THEN <<>>
    ELSE The({ DivLimbs(a, b, i - 1, step[2]) \o <<step[1]>> :
               step \in {DivBits(a[i], b, 8, 0, r)} })

\* floor(a / b) for b # 0, as long as a
Div(a, b) ==
    The({ DivLimbs(a1, b1, Len(a1), Zeros(Len(a1) + 1)) :
          a1 \in {a}, b1 \in {Resize(b, Len(a) + 1)} })

(***************************************************************************)
(* Constants of contracts/PrivyPlay.sol                                    *)
(***************************************************************************)
POINTS_PER_ETH == 1000000

PLAY_COST == 100

WIN_REWARD == 1000

\* x as a uint256 and as a uint64
U256(x) == FromNat(x, U256Limbs)

U64(x) == FromNat(x, U64Limbs)

\* a * b cut to uint256, for products known to fit
Times(a, b) == Resize(MulFull(a, b), U256Limbs)

\* the Solidity literal 1 ether = 10^18 wei
ONE_ETHER == Times(Times(U256(1000000), U256(1000000)), U256(1000000))

\* type(uint64).max
UINT64_MAX == Resize(SubWrap(Zeros(U64Limbs), U64(1)), U256Limbs)

(***************************************************************************)
(* Principals, handles and inputs                                          *)
(***************************************************************************)
Accounts == {"alice", "bob"}

\* address(this), the principal of FHE.allowThis
This == "PrivyPlay"

\* the value of a never-written handle (ZERO_HASH, ethers.ZeroHash)
ZERO_HASH == 0

\* the most transactions that commit in one behaviour
MaxTx == 3

\* the engine hands out the handles 1 .. MaxHandle: room for MaxTx
\* transactions of any kind (a submitGuess makes ten ciphertexts, a
\* startGame seven, a buyPoints two)
MaxHandle == 24

\* 10^12 wei buy one point
WeiPerPoint == Times(U256(1000000), U256(1000000))

\* msg.value of a buyPoints call: nothing, just under one point, 99 points
\* (less than a round costs), 1 ether, one point more than fits 64 bits,
\* and a value whose product with POINTS_PER_ETH leaves uint256
MsgValues ==
    { U256(0),
      SubWrap(WeiPerPoint, U256(1)),
      Times(U256(99), WeiPerPoint),
      ONE_ETHER,
      Times(AddWrap(UINT64_MAX, U256(1)), WeiPerPoint),
      [i \in 1..U256Limbs |-> IF i = U256Limbs THEN 128 ELSE 0] }

\* msg.value of a buyPoints call that fills the 64-bit domain: 1 ether and
\* the most points that pass the check of line 31
LargeMsgValues == { ONE_ETHER, Times(UINT64_MAX, WeiPerPoint) }

VARIABLES
    balances,       \* mapping(address => euint64): handle per account
    lastRoll,       \* mapping(address => euint8)
    lastOutcome,    \* mapping(address => ebool)
    lastReward,     \* mapping(address => euint64)
    roundEligible,  \* mapping(address => ebool)
    gameActive,     \* mapping(address => bool)
    ct,             \* the ciphertext engine: handle -> [t: type, v: plaintext]
    nextHandle,     \* the next handle the engine hands out
    acl,            \* persistent grants: set of <<handle, principal>>
    events,         \* the contract's event log
    lastCall,       \* the latest call and how it ended
    view,           \* the web client's displayed player data (React state)
    isBusy,         \* the web client's busy flags (React state), refresh only
    inflight,       \* the refreshPlayerData() runs that have not returned
    latestRead      \* the answer of the most recent read of the ledger

ledger == <<balances, lastRoll, lastOutcome, lastReward, roundEligible,
            gameActive>>

engine == <<ct, nextHandle, acl>>

vars == <<balances, lastRoll, lastOutcome, lastReward, roundEligible,
          gameActive, ct, nextHandle, acl, events, lastCall, view, isBusy,
          inflight, latestRead>>

\* the client's state beside the displayed player data
runs == <<isBusy, inflight, latestRead>>

Init ==
    /\ balances = [a \in Accounts |-> ZERO_HASH]
    /\ lastRoll = [a \in Accounts |-> ZERO_HASH]
    /\ lastOutcome = [a \in Accounts |-> ZERO_HASH]
    /\ lastReward = [a \in Accounts |-> ZERO_HASH]
    /\ roundEligible = [a \in Accounts |-> ZERO_HASH]
    /\ gameActive = [a \in Accounts |-> FALSE]
    /\ ct = <<>>
    /\ nextHandle = 1
    /\ acl = {}
    /\ events = <<>>
    /\ lastCall = [op |-> "constructor", sender |-> This, args |-> <<>>,
                   error |-> "", result |-> <<>>]
    /\ view = [balance |-> <<>>, lastRoll |-> <<>>, lastOutcome |-> <<>>,
               lastReward |-> <<>>, gameActive |-> FALSE]
    /\ isBusy = [refresh |-> FALSE]
    /\ inflight = <<>>
    /\ latestRead = <<>>

(***************************************************************************)
(* The ciphertext engine as the contract uses it.  A ciphertext is its     *)
(* type and plaintext; the engine hands out a fresh handle for every       *)
(* result, and an uninitialised handle reads as zero.                      *)
(***************************************************************************)
Euint64(v) == [t |-> "euint64", v |-> v]

Euint8(v) == [t |-> "euint8", v |-> v]

Ebool(v) == [t |-> "ebool", v |-> v]

\* the plaintext behind handle h in store c, for a handle of type euint64
Plain64(c, h) == IF h = ZERO_HASH THEN U64(0) ELSE c[h].v

\* the plaintext behind a euint8 handle
Plain8(c, h) == IF h = ZERO_HASH THEN 0 ELSE c[h].v

\* the plaintext behind an ebool handle
PlainBool(c, h) == IF h = ZERO_HASH THEN FALSE ELSE c[h].v

\* the handle of the k-th ciphertext a transaction makes
Fresh(k) == nextHandle + k - 1

\* the engine after a transaction made the ciphertexts made[1], made[2], ..
Minted(made) ==
    /\ nextHandle + Len(made) - 1 <= MaxHandle
    /\ ct' = ct \o made
    /\ nextHandle' = nextHandle + Len(made)

\* FHE.allowThis(h) and FHE.allow(h, account)
allowThis(h) == <<h, This>>

allow(h, account) == <<h, account>>

\* grants that last for their transaction only (FHE.allowTransient)
Allowed_Transient(grants) == acl' = grants

\* the registry after a transaction made the grants: FHE.allow and
\* FHE.allowThis add to it and nothing takes away from it
Allowed(grants) == acl' = acl \cup grants

\* a failing call that returns instead of reverting: the grants it made on
\* the caller's balance handle stay
Revert_KeepsGrants(op, sender, reason) ==
    /\ lastCall' = [op |-> op, sender |-> sender, args |-> <<>>,
                    error |-> reason, result |-> <<>>]
    /\ acl' = acl \cup { <<balances[sender], This>> }
    /\ UNCHANGED <<ledger, ct, nextHandle, events, view, runs>>

\* a transaction that reverts: no storage, engine or log change; the
\* receipt carries the reason alone
Revert(op, sender, reason) ==
    /\ lastCall' = [op |-> op, sender |-> sender, args |-> <<>>,
                    error |-> reason, result |-> <<>>]
    /\ UNCHANGED <<ledger, engine, events, view, runs>>

\* the receipt of a transaction that commits
Ok(op, sender, args) ==
    [op |-> op, sender |-> sender, args |-> args, error |-> "",
     result |-> <<>>]

(***************************************************************************)
(* contracts/PrivyPlay.sol                                                 *)
(***************************************************************************)
\* line 29 in an unchecked block: the product wraps modulo 2^256
pointsValueOf_Unchecked(value) ==
    [panic |-> FALSE,
     pointsValue |->
         Div(Resize(MulFull(value, U256(POINTS_PER_ETH)), U256Limbs),
             ONE_ETHER)]

\* line 29: msg.value * POINTS_PER_ETH in checked uint256 arithmetic, then
\* / 1 ether; panic is TRUE when the product leaves uint256
pointsValueOf(value) ==
    LET product == MulFull(value, U256(POINTS_PER_ETH))
    IN  IF ~FitsIn(product, U256Limbs)
        THEN [panic |-> TRUE, pointsValue |-> U256(0)]
        ELSE [panic |-> FALSE,
              pointsValue |-> Div(Resize(product, U256Limbs), ONE_ETHER)]

\* pointsValueOf over the inputs, computed once
PointsTable ==
    { <<value, pointsValueOf(value)>> : value \in MsgValues \cup LargeMsgValues }

\* buyPoints granting the new balance handle to every account
buyPointsGrants_Everyone(sender, hBalance) ==
    { allowThis(hBalance) } \cup { allow(hBalance, a) : a \in Accounts }

\* buyPoints granting the caller its eligibility handle as well
buyPointsGrants_AndEligible(sender, hBalance) ==
    { allowThis(hBalance), allow(hBalance, sender),
      allow(roundEligible[sender], sender) }

\* lines 36-37: the grants buyPoints makes on the new balance handle
buyPointsGrants(sender, hBalance) ==
    { allowThis(hBalance), allow(hBalance, sender) }

\* function buyPoints() external payable
buyPoints(sender, value) ==
    LET converted == The({ e[2] : e \in { p \in PointsTable : p[1] = value } })
        pointsValue == converted.pointsValue
    IN  IF IsZero(value)
        THEN Revert("buyPoints", sender, "No ETH sent")
        ELSE IF converted.panic
        THEN Revert("buyPoints", sender, "Panic(0x11)")
        ELSE IF IsZero(pointsValue)
        THEN Revert("buyPoints", sender, "Amount too small")
        ELSE IF Lt(UINT64_MAX, pointsValue)
        THEN Revert("buyPoints", sender, "Points overflow")
        ELSE LET encryptedPoints == Euint64(Resize(pointsValue, U64Limbs))
                 sum == Euint64(AddWrap(Plain64(ct, balances[sender]),
                                        encryptedPoints.v))
             IN  /\ Len(events) < MaxTx
                 /\ lastCall' = Ok("buyPoints", sender, <<value>>)
                 /\ Minted(<<encryptedPoints, sum>>)
                 /\ balances' = [balances EXCEPT ![sender] = Fresh(2)]
                 /\ Allowed(buyPointsGrants(sender, Fresh(2)))
                 /\ events' = Append(events,
                        [name |-> "PointsPurchased", player |-> sender,
                         ethAmount |-> value, points |-> pointsValue])
                 /\ UNCHANGED <<lastRoll, lastOutcome, lastReward,
                                roundEligible, gameActive, view, runs>>

\* startGame keeping FHE.sub's result whatever hasEnough says
chargeRound_AlwaysDebit(balance) ==
    LET cost == Euint64(U64(PLAY_COST))
        hasEnough == Ebool(Ge(balance, cost.v))
        debited == Euint64(SubWrap(balance, cost.v))
        selected == Euint64(debited.v)
    IN  <<cost, hasEnough, debited, selected>>

\* lines 47-49: the ciphertexts cost, hasEnough, FHE.sub(..) and FHE.select(..)
\* that startGame computes from the plaintext behind the balance
chargeRound(balance) ==
    LET cost == Euint64(U64(PLAY_COST))
        hasEnough == Ebool(Ge(balance, cost.v))
        debited == Euint64(SubWrap(balance, cost.v))
        selected == Euint64(IF hasEnough.v THEN debited.v ELSE balance)
    IN  <<cost, hasEnough, debited, selected>>

\* the dice without the added one
rollDice_NoOffset(rand) ==
    LET drawn == Euint8(rand)
        one == Euint8(1)
        diceRoll == Euint8(drawn.v)
    IN  <<drawn, one, diceRoll>>

\* line 52: FHE.randEuint8(6), FHE.asEuint8(1) and their FHE.add
rollDice(rand) ==
    LET drawn == Euint8(rand)
        one == Euint8(1)
        diceRoll == Euint8((drawn.v + one.v) % 256)
    IN  <<drawn, one, diceRoll>>

\* startGame without FHE.allow(diceRoll, msg.sender)
startGameGrants_NoPlayerRoll(sender, hBalance, hHasEnough, hDiceRoll) ==
    { allowThis(hBalance), allow(hBalance, sender),
      allowThis(hHasEnough),
      allowThis(hDiceRoll) }

\* lines 55-59: the grants startGame makes
startGameGrants(sender, hBalance, hHasEnough, hDiceRoll) ==
    { allowThis(hBalance), allow(hBalance, sender),
      allowThis(hHasEnough),
      allowThis(hDiceRoll), allow(hDiceRoll, sender) }

\* startGame without the require of line 44
requireIdle_Skipped(sender) == TRUE

\* startGame refusing a caller whose balance does not cover PLAY_COST
requireIdle_AndFunded(sender) ==
    /\ ~gameActive[sender]
    /\ Ge(Plain64(ct, balances[sender]), U64(PLAY_COST))

\* line 44: require(!gameActive[msg.sender], "Game already active")
requireIdle(sender) == ~gameActive[sender]

\* line 45: gameActive[msg.sender] = true
openRound(sender) == [gameActive EXCEPT ![sender] = TRUE]

\* what FHE.randEuint8(upperBound) can draw
RandEuint8(upperBound) == 0..(upperBound - 1)

\* startGame clearing the outcome and the reward of the round before
startGame_ClearingLast(sender) ==
    IF ~requireIdle(sender)
    THEN Revert("startGame", sender, "Game already active")
    ELSE \E rand \in RandEuint8(6) :
         LET hHasEnough == Fresh(2)
             hBalance == Fresh(4)
             hDiceRoll == Fresh(7)
         IN  /\ Len(events) < MaxTx
             /\ lastCall' = Ok("startGame", sender, <<>>)
             /\ gameActive' = openRound(sender)
             /\ Minted(chargeRound(Plain64(ct, balances[sender]))
                       \o rollDice(rand))
             /\ balances' = [balances EXCEPT ![sender] = hBalance]
             /\ roundEligible' = [roundEligible EXCEPT ![sender] = hHasEnough]
             /\ lastRoll' = [lastRoll EXCEPT ![sender] = hDiceRoll]
             /\ Allowed(startGameGrants(sender, hBalance, hHasEnough,
                                        hDiceRoll))
             /\ events' = Append(events,
                    [name |-> "GameStarted", player |-> sender])
             /\ lastOutcome' = [lastOutcome EXCEPT ![sender] = ZERO_HASH]
             /\ lastReward' = [lastReward EXCEPT ![sender] = ZERO_HASH]
             /\ UNCHANGED <<view, runs>>

\* function startGame() external; rand is what FHE.randEuint8(6) draws
startGame(sender) ==
    IF ~requireIdle(sender)
    THEN Revert("startGame", sender, "Game already active")
    ELSE \E rand \in RandEuint8(6) :
         LET hHasEnough == Fresh(2)
             hBalance == Fresh(4)
             hDiceRoll == Fresh(7)
         IN  /\ Len(events) < MaxTx
             /\ lastCall' = Ok("startGame", sender, <<>>)
             /\ gameActive' = openRound(sender)
             /\ Minted(chargeRound(Plain64(ct, balances[sender]))
                       \o rollDice(rand))
             /\ balances' = [balances EXCEPT ![sender] = hBalance]
             /\ roundEligible' = [roundEligible EXCEPT ![sender] = hHasEnough]
             /\ lastRoll' = [lastRoll EXCEPT ![sender] = hDiceRoll]
             /\ Allowed(startGameGrants(sender, hBalance, hHasEnough,
                                        hDiceRoll))
             /\ events' = Append(events,
                    [name |-> "GameStarted", player |-> sender])
             /\ UNCHANGED <<lastOutcome, lastReward, view, runs>>

\* submitGuess without the select on roundEligible of line 76
settleRound_Ungated(guess, roll, eligible, balance) ==
    LET encryptedGuess == Ebool(guess)
        four == Euint8(4)
        isBig == Ebool(roll >= four.v)
        isWin == Ebool(isBig.v = encryptedGuess.v)
        winReward == Euint64(U64(WIN_REWARD))
        zero == Euint64(U64(0))
        rewardIfWin == Euint64(IF isWin.v THEN winReward.v ELSE zero.v)
        reward == Euint64(rewardIfWin.v)
        sum == Euint64(AddWrap(balance, reward.v))
    IN  <<encryptedGuess, four, isBig, isWin, winReward, zero, rewardIfWin,
          zero, reward, sum>>

\* submitGuess comparing isBig and the guess with FHE.ne instead of FHE.eq
settleRound_NotEqual(guess, roll, eligible, balance) ==
    LET encryptedGuess == Ebool(guess)
        four == Euint8(4)
        isBig == Ebool(roll >= four.v)
        isWin == Ebool(isBig.v # encryptedGuess.v)
        winReward == Euint64(U64(WIN_REWARD))
        zero == Euint64(U64(0))
        rewardIfWin == Euint64(IF isWin.v THEN winReward.v ELSE zero.v)
        reward == Euint64(IF eligible THEN rewardIfWin.v ELSE zero.v)
        sum == Euint64(AddWrap(balance, reward.v))
    IN  <<encryptedGuess, four, isBig, isWin, winReward, zero, rewardIfWin,
          zero, reward, sum>>

\* submitGuess comparing the roll with FHE.gt instead of FHE.ge
settleRound_GreaterThanFour(guess, roll, eligible, balance) ==
    LET encryptedGuess == Ebool(guess)
        four == Euint8(4)
        isBig == Ebool(roll > four.v)
        isWin == Ebool(isBig.v = encryptedGuess.v)
        winReward == Euint64(U64(WIN_REWARD))
        zero == Euint64(U64(0))
        rewardIfWin == Euint64(IF isWin.v THEN winReward.v ELSE zero.v)
        reward == Euint64(IF eligible THEN rewardIfWin.v ELSE zero.v)
        sum == Euint64(AddWrap(balance, reward.v))
    IN  <<encryptedGuess, four, isBig, isWin, winReward, zero, rewardIfWin,
          zero, reward, sum>>

\* lines 71-77: the ciphertexts submitGuess computes from the imported guess
\* and the plaintexts behind lastRoll, roundEligible and the balance
settleRound(guess, roll, eligible, balance) ==
    LET encryptedGuess == Ebool(guess)
        four == Euint8(4)
        isBig == Ebool(roll >= four.v)
        isWin == Ebool(isBig.v = encryptedGuess.v)
        winReward == Euint64(U64(WIN_REWARD))
        zero == Euint64(U64(0))
        rewardIfWin == Euint64(IF isWin.v THEN winReward.v ELSE zero.v)
        reward == Euint64(IF eligible THEN rewardIfWin.v ELSE zero.v)
        sum == Euint64(AddWrap(balance, reward.v))
    IN  <<encryptedGuess, four, isBig, isWin, winReward, zero, rewardIfWin,
          zero, reward, sum>>

\* lines 81-86: the grants submitGuess makes
submitGuessGrants(sender, hBalance, hIsWin, hReward) ==
    { allowThis(hBalance), allow(hBalance, sender),
      allowThis(hIsWin), allow(hIsWin, sender),
      allowThis(hReward), allow(hReward, sender) }

\* submitGuess without the require of line 68
requireActive_Skipped(sender) == TRUE

\* submitGuess open only to rounds that collected their cost
requireActive_AndEligible(sender) ==
    gameActive[sender] /\ PlainBool(ct, roundEligible[sender])

\* line 68: require(gameActive[msg.sender], "No active game")
requireActive(sender) == gameActive[sender]

\* submitGuess without the write of line 69
closeRound_Noop(sender) == gameActive

\* submitGuess closing the round of every account
closeRound_Everyone(sender) == [a \in Accounts |-> FALSE]

\* line 69: gameActive[msg.sender] = false
closeRound(sender) == [gameActive EXCEPT ![sender] = FALSE]

\* lines 69-88 of submitGuess once FHE.fromExternal accepted the proof
submitGuessCommit(sender, guess) ==
    LET hIsWin == Fresh(4)
        hReward == Fresh(9)
        hBalance == Fresh(10)
    IN  /\ Len(events) < MaxTx
        /\ lastCall' = Ok("submitGuess", sender, <<guess, TRUE>>)
        /\ gameActive' = closeRound(sender)
        /\ Minted(settleRound(guess,
                              Plain8(ct, lastRoll[sender]),
                              PlainBool(ct, roundEligible[sender]),
                              Plain64(ct, balances[sender])))
        /\ balances' = [balances EXCEPT ![sender] = hBalance]
        /\ lastOutcome' = [lastOutcome EXCEPT ![sender] = hIsWin]
        /\ lastReward' = [lastReward EXCEPT ![sender] = hReward]
        /\ Allowed(submitGuessGrants(sender, hBalance, hIsWin, hReward))
        /\ events' = Append(events,
               [name |-> "GuessSubmitted", player |-> sender])
        /\ UNCHANGED <<lastRoll, roundEligible, view, runs>>

\* submitGuess keeping the write of line 69 when the proof is rejected
submitGuess_Consuming(sender, guess, proofValid) ==
    IF ~requireActive(sender)
    THEN Revert("submitGuess", sender, "No active game")
    ELSE IF ~proofValid
    THEN /\ gameActive' = closeRound(sender)
         /\ lastCall' = [op |-> "submitGuess", sender |-> sender,
                         args |-> <<>>, error |-> "InvalidProof",
                         result |-> <<>>]
         /\ UNCHANGED <<balances, lastRoll, lastOutcome, lastReward,
                        roundEligible, engine, events, view, runs>>
    ELSE submitGuessCommit(sender, guess)

\* function submitGuess(externalEbool guess, bytes calldata inputProof);
\* guess is the plaintext the caller encrypted, proofValid whether
\* inputProof authenticates it for this caller and contract.  The write of
\* line 69 is undone when FHE.fromExternal reverts on line 71.
submitGuess(sender, guess, proofValid) ==
    IF ~requireActive(sender)
    THEN Revert("submitGuess", sender, "No active game")
    ELSE IF ~proofValid
    THEN Revert("submitGuess", sender, "InvalidProof")
    ELSE submitGuessCommit(sender, guess)

Next ==
    \/ \E sender \in Accounts, value \in MsgValues : buyPoints(sender, value)
    \/ \E sender \in Accounts : startGame(sender)
    \/ \E sender \in Accounts, guess \in BOOLEAN, proofValid \in BOOLEAN :
           submitGuess(sender, guess, proofValid)

Spec == Init /\ [][Next]_vars

\* the ledger under purchases that fill the 64-bit domain
NextOverflow ==
    \/ \E sender \in Accounts, value \in LargeMsgValues :
           buyPoints(sender, value)
    \/ \E sender \in Accounts : startGame(sender)
    \/ \E sender \in Accounts, guess \in BOOLEAN :
           submitGuess(sender, guess, TRUE)

SpecOverflow == Init /\ [][NextOverflow]_vars

\* purchases of every size, in and out of a round
NextFund ==
    \/ \E sender \in Accounts, value \in MsgValues : buyPoints(sender, value)
    \/ \E sender \in Accounts : startGame(sender)

SpecFund == Init /\ [][NextFund]_vars

\* msg.value of the purchases that set the secrets apart: nothing, 99
\* points (less than a round costs) and 1 ether
SecretMsgValues == { U256(0), Times(U256(99), WeiPerPoint), ONE_ETHER }

\* the ledger under balances on both sides of PLAY_COST, every roll, every
\* guess and every proof validity
NextSecrets ==
    \/ \E sender \in Accounts, value \in SecretMsgValues :
           buyPoints(sender, value)
    \/ \E sender \in Accounts : startGame(sender)
    \/ \E sender \in Accounts, guess \in BOOLEAN, proofValid \in BOOLEAN :
           submitGuess(sender, guess, proofValid)

SpecSecrets == Init /\ [][NextSecrets]_vars

(***************************************************************************)
(* User decryption: the client's request and the service's verification    *)
(***************************************************************************)
\* the handles refreshPlayerData reads through getBalance, getLastRoll,
\* getLastOutcome and getLastReward and keeps when they are not ZERO_HASH
handlesToDecrypt(player) ==
    { balances[player], lastRoll[player], lastOutcome[player],
      lastReward[player] } \ { ZERO_HASH }

\* every written handle of a player's record
RecordHandles(player) ==
    handlesToDecrypt(player) \cup ({ roundEligible[player] } \ { ZERO_HASH })

\* the batches a requester sends: what the client collects for a player,
\* the balance alone (task privyplay:balance), a player's whole record, and
\* the handles of every record together
Batches ==
    ( UNION { { handlesToDecrypt(p), { balances[p] } \ { ZERO_HASH },
                RecordHandles(p) } : p \in Accounts }
      \cup { UNION { RecordHandles(p) : p \in Accounts } } ) \ { {} }

\* the batches the client collects: a player's non-sentinel handles
ClientBatches == { handlesToDecrypt(p) : p \in Accounts } \ { {} }

\* the client's batches, and one batch with the handles of both accounts
WindowBatches == (ClientBatches \cup { UNION ClientBatches }) \ { {} }

\* the registry's lookup
isGranted(h, principal) == <<h, principal>> \in acl

\* the service's verification of a batch: every handle requested is granted
\* to the requesting account
serviceVerifies(requester, batch) ==
    \A h \in batch : isGranted(h, requester)

\* const durationDays = '7': the validity of a delegation, in days
durationDays == 7

\* the most days between the delegation's start and the service's check
MaxElapsed == 8

\* days between startTimeStamp, taken before the wallet is asked to sign,
\* and the moment the service checks the request: at once, on the last day
\* of the window, on the first day after it, and later
Elapsed == { 0, durationDays - 1, durationDays, MaxElapsed }

\* the service's check of the validity window [start, start + duration)
inWindow(elapsed) == 0 <= elapsed /\ elapsed < durationDays

\* the errors the service may answer a request with: none when every check
\* passes; which one when several checks fail is not specified
serviceErrors(requester, batch, elapsed) ==
    (IF inWindow(elapsed) THEN {} ELSE { "AuthorizationExpired" })
        \cup (IF serviceVerifies(requester, batch) THEN {}
              ELSE { "AccessDenied" })

\* the characters of a decimal digit
DigitChars == <<"0", "1", "2", "3", "4", "5", "6", "7", "8", "9">>

\* <<floor(x / d), x % d>> for x the limbs a[i..Len(a)] and a small d, by
\* short division from the most significant limb down
RECURSIVE QuotRem(_, _, _)
QuotRem(a, d, i) ==
    IF i > Len(a) THEN <<<<>>, 0>>
    ELSE The({ <<<<(hi[2] * Radix + a[i]) \div d>> \o hi[1],
                 (hi[2] * Radix + a[i]) % d>> :
                   hi \in { QuotRem(a, d, i + 1) } })

\* the decimal digits of a > 0, most significant first
RECURSIVE Digits(_)
Digits(a) ==
    IF IsZero(a) THEN <<>>
    ELSE The({ Digits(qr[1]) \o <<DigitChars[qr[2] + 1]>> :
                   qr \in { QuotRem(a, 10, 1) } })

\* the decimal digits of a natural number n > 0 that fits TLC's integers
RECURSIVE NatDigits(_)
NatDigits(n) ==
    IF n = 0 THEN <<>>
    ELSE NatDigits(n \div 10) \o <<DigitChars[(n % 10) + 1]>>

\* the value of the three low limbs of a
LowNat(a) ==
    a[1] + (IF Len(a) >= 2 THEN a[2] * Radix ELSE 0)
         + (IF Len(a) >= 3 THEN a[3] * Radix * Radix ELSE 0)

\* a machine integer as a decimal string
DecimalString(a) ==
    IF IsZero(a) THEN <<"0">>
    ELSE IF FitsIn(a, 3) THEN NatDigits(LowNat(a))
    ELSE Digits(a)

\* the plaintext of a ciphertext as the response gives it: a decimal string
\* for euint8 and euint64, "1" or "0" for ebool
plaintextString(c) ==
    IF c.t = "ebool" THEN (IF c.v THEN <<"1">> ELSE <<"0">>)
    ELSE IF c.t = "euint8" THEN DecimalString(FromNat(c.v, 1))
    ELSE DecimalString(c.v)

\* the response to a batch that passed: handle -> decoded plaintext string
serviceResponse(batch) == [h \in batch |-> plaintextString(ct[h])]

\* a decryption that uses the grants up: the requester's grants on the
\* handles of an answered batch are taken back
userDecrypt_Consuming(requester, batch, elapsed) ==
    /\ \E error \in IF serviceErrors(requester, batch, elapsed) = {}
                    THEN { "" }
                    ELSE serviceErrors(requester, batch, elapsed) :
           /\ lastCall' = [op |-> "userDecrypt", sender |-> requester,
                           args |-> <<batch, elapsed>>, error |-> error,
                           result |-> IF error = ""
                                      THEN serviceResponse(batch)
                                      ELSE <<>>]
           /\ acl' = IF error = ""
                     THEN acl \ { <<h, requester>> : h \in batch }
                     ELSE acl
    /\ UNCHANGED <<ledger, ct, nextHandle, events, view, runs>>

\* decryptHandles ignoring what the service says about the window
userDecrypt_NoWindow(requester, batch, elapsed) ==
    /\ lastCall' =
           IF serviceVerifies(requester, batch)
           THEN [op |-> "userDecrypt", sender |-> requester,
                 args |-> <<batch, elapsed>>, error |-> "",
                 result |-> serviceResponse(batch)]
           ELSE [op |-> "userDecrypt", sender |-> requester,
                 args |-> <<batch, elapsed>>, error |-> "AccessDenied",
                 result |-> <<>>]
    /\ UNCHANGED <<ledger, engine, events, view, runs>>

\* decryptHandles keeping the plaintexts of the handles that passed
userDecrypt_Partial(requester, batch, elapsed) ==
    /\ \E error \in IF serviceErrors(requester, batch, elapsed) = {}
                    THEN { "" }
                    ELSE serviceErrors(requester, batch, elapsed) :
           lastCall' = [op |-> "userDecrypt", sender |-> requester,
                        args |-> <<batch, elapsed>>, error |-> error,
                        result |-> serviceResponse(
                            { h \in batch : isGranted(h, requester) })]
    /\ UNCHANGED <<ledger, engine, events, view, runs>>

\* decryptHandles(handles) for the connected account: the request to
\* instance.userDecrypt, sent elapsed days after startTimeStamp, and the
\* service's answer, the whole batch or nothing
userDecrypt(requester, batch, elapsed) ==
    /\ \E error \in IF serviceErrors(requester, batch, elapsed) = {}
                    THEN { "" }
                    ELSE serviceErrors(requester, batch, elapsed) :
           lastCall' = [op |-> "userDecrypt", sender |-> requester,
                        args |-> <<batch, elapsed>>, error |-> error,
                        result |-> IF error = ""
                                   THEN serviceResponse(batch)
                                   ELSE <<>>]
    /\ UNCHANGED <<ledger, engine, events, view, runs>>

\* the digit a decimal character stands for
DigitValue(c) == CHOOSE d \in 0..9 : DigitChars[d + 1] = c

\* Number(raw) of a decimal string
RECURSIVE Number(_)
Number(raw) ==
    IF raw = <<>> THEN 0
    ELSE Number(SubSeq(raw, 1, Len(raw) - 1)) * 10 + DigitValue(raw[Len(raw)])

\* a React state that holds null, and one that holds a value
null == <<>>
Some(value) == <<value>>

\* what the client shows when no handle is to be decrypted, everything absent
sentinelView_AllNull(active) ==
    [balance |-> null, lastRoll |-> null, lastOutcome |-> null,
     lastReward |-> null, gameActive |-> active]

\* what the client shows when no handle is to be decrypted
\* (handlesToDecrypt.length === 0)
sentinelView(active) ==
    [balance |-> Some(<<"0">>), lastRoll |-> null, lastOutcome |-> null,
     lastReward |-> Some(<<"0">>), gameActive |-> active]

\* what the client shows when it cannot decrypt (!canDecrypt)
lockedView(active) ==
    [balance |-> null, lastRoll |-> null, lastOutcome |-> null,
     lastReward |-> null, gameActive |-> active]

\* the decoding without its else branches: a field whose handle is the
\* sentinel keeps what it showed
decodedView_NoDefaults(address, decryptedValues, active) ==
    [balance |->
         IF balances[address] # ZERO_HASH
         THEN Some(decryptedValues[balances[address]])
         ELSE view.balance,
     lastRoll |->
         IF lastRoll[address] # ZERO_HASH
         THEN Some(Number(decryptedValues[lastRoll[address]]))
         ELSE view.lastRoll,
     lastOutcome |->
         IF lastOutcome[address] # ZERO_HASH
         THEN Some(decryptedValues[lastOutcome[address]] = <<"1">>)
         ELSE view.lastOutcome,
     lastReward |->
         IF lastReward[address] # ZERO_HASH
         THEN Some(decryptedValues[lastReward[address]])
         ELSE view.lastReward,
     gameActive |-> active]

\* the four fields decoded from the response decryptedValues; lastOutcome is
\* left as it was when the response has no entry for its handle
decodedView(address, decryptedValues, active) ==
    [balance |->
         IF balances[address] # ZERO_HASH
         THEN (IF balances[address] \in DOMAIN decryptedValues
               THEN Some(decryptedValues[balances[address]])
               ELSE Some(<<"0">>))
         ELSE Some(<<"0">>),
     lastRoll |->
         IF lastRoll[address] # ZERO_HASH
         THEN (IF /\ lastRoll[address] \in DOMAIN decryptedValues
                  /\ decryptedValues[lastRoll[address]] # <<>>
               THEN Some(Number(decryptedValues[lastRoll[address]]))
               ELSE null)
         ELSE null,
     lastOutcome |->
         IF lastOutcome[address] # ZERO_HASH
         THEN (IF lastOutcome[address] \in DOMAIN decryptedValues
               THEN Some(decryptedValues[lastOutcome[address]] = <<"1">>)
               ELSE view.lastOutcome)
         ELSE null,
     lastReward |->
         IF lastReward[address] # ZERO_HASH
         THEN (IF lastReward[address] \in DOMAIN decryptedValues
               THEN Some(decryptedValues[lastReward[address]])
               ELSE Some(<<"0">>))
         ELSE Some(<<"0">>),
     gameActive |-> active]

\* the receipt of a refresh: whether the wallet was asked to sign, and the
\* batch sent to the service, {} when none was sent
Refreshed(address, inputs, error, signed, requested) ==
    [op |-> "refreshPlayerData", sender |-> address, args |-> inputs,
     error |-> error,
     result |-> [signed |-> signed, requested |-> requested]]

\* refreshPlayerData() of a client connected as address: the five reads, then
\* the defaults or decryptHandles and the decoding; a throw of decryptHandles
\* is caught, after setGameActive
refreshPlayerData(address, canUseWallet, canDecrypt, resolvedSigner, elapsed) ==
    LET inputs == <<canUseWallet, canDecrypt, resolvedSigner, elapsed>>
        active == gameActive[address]
        batch == handlesToDecrypt(address)
    IN  /\ IF ~canUseWallet
           THEN /\ lastCall' = Refreshed(address, inputs, "", FALSE, {})
                /\ view' = view
           ELSE IF ~canDecrypt
           THEN /\ lastCall' = Refreshed(address, inputs, "", FALSE, {})
                /\ view' = lockedView(active)
           ELSE IF batch = {}
           THEN /\ lastCall' = Refreshed(address, inputs, "", FALSE, {})
                /\ view' = sentinelView(active)
           ELSE IF ~resolvedSigner
           THEN /\ lastCall' = Refreshed(address, inputs,
                                         "Signer not available", FALSE, {})
                /\ view' = [view EXCEPT !.gameActive = active]
           ELSE \E error \in IF serviceErrors(address, batch, elapsed) = {}
                             THEN { "" }
                             ELSE serviceErrors(address, batch, elapsed) :
                    /\ lastCall' = Refreshed(address, inputs, error, TRUE, batch)
                    /\ view' = IF error = ""
                               THEN decodedView(address,
                                                serviceResponse(batch), active)
                               ELSE [view EXCEPT !.gameActive = active]
        /\ UNCHANGED <<ledger, engine, events, runs>>

\* the ledger with 1 ether purchases and authentic guesses, and the
\* accounts' decryption requests, sent as soon as they are signed
NextDecrypt ==
    \/ \E sender \in Accounts : buyPoints(sender, ONE_ETHER)
    \/ \E sender \in Accounts : startGame(sender)
    \/ \E sender \in Accounts, guess \in BOOLEAN :
           submitGuess(sender, guess, TRUE)
    \/ \E requester \in Accounts, batch \in Batches :
           userDecrypt(requester, batch, 0)

SpecDecrypt == Init /\ [][NextDecrypt]_vars

\* purchases and round starts, with batches of one account's handles or of
\* both accounts' handles, requested by either account, reaching the service
\* any number of days after they were prepared
NextWindow ==
    \/ \E sender \in Accounts : buyPoints(sender, ONE_ETHER)
    \/ \E sender \in Accounts : startGame(sender)
    \/ \E requester \in Accounts, batch \in WindowBatches, elapsed \in Elapsed :
           userDecrypt(requester, batch, elapsed)

SpecWindow == Init /\ [][NextWindow]_vars

\* the states of the client's connection: no wallet, wallet without a ready
\* encryption instance, instance ready without a signer, and ready with the
\* request reaching the service at once or when the window has closed
ClientInputs ==
    { <<FALSE, FALSE, FALSE, 0>>, <<TRUE, FALSE, FALSE, 0>>,
      <<TRUE, TRUE, FALSE, 0>>, <<TRUE, TRUE, TRUE, 0>>,
      <<TRUE, TRUE, TRUE, durationDays>> }

\* the ledger with 1 ether purchases and authentic guesses of "big", and a
\* client that refreshes for either account
NextClient ==
    \/ \E sender \in Accounts : buyPoints(sender, ONE_ETHER)
    \/ \E sender \in Accounts : startGame(sender)
    \/ \E sender \in Accounts : submitGuess(sender, TRUE, TRUE)
    \/ \E address \in Accounts, c \in ClientInputs :
           refreshPlayerData(address, c[1], c[2], c[3], c[4])

SpecClient == Init /\ [][NextClient]_vars

\* the rounds of accounts that bought 1 ether of points or none
NextRounds ==
    \/ \E sender \in Accounts : buyPoints(sender, ONE_ETHER)
    \/ \E sender \in Accounts : startGame(sender)
    \/ \E sender \in Accounts, guess \in BOOLEAN, proofValid \in BOOLEAN :
           submitGuess(sender, guess, proofValid)

SpecRounds == Init /\ [][NextRounds]_vars

\* the ledger with 1 ether purchases and authentic guesses of "big", and
\* the requests of either account for the client's batch of either account,
\* sent as soon as they are signed
NextReadOnly ==
    \/ \E sender \in Accounts : buyPoints(sender, ONE_ETHER)
    \/ \E sender \in Accounts : startGame(sender)
    \/ \E sender \in Accounts : submitGuess(sender, TRUE, TRUE)
    \/ \E requester \in Accounts, batch \in ClientBatches :
           userDecrypt(requester, batch, 0)

SpecReadOnly == Init /\ [][NextReadOnly]_vars

(***************************************************************************)
(* The refresh as the asynchronous function it is: a run is suspended at   *)
(* its two awaits, and other runs and transactions proceed meanwhile       *)
(***************************************************************************)

\* the number of refreshPlayerData() runs that may be suspended together
MaxInflight == 2

\* a sequence without its i-th element
Without(seq, i) == SubSeq(seq, 1, i - 1) \o SubSeq(seq, i + 1, Len(seq))

\* what the five readContract calls of a run answer in the current state
readContract(address) ==
    [address |-> address,
     encryptedBalance |-> balances[address],
     encryptedRoll |-> lastRoll[address],
     encryptedOutcome |-> lastOutcome[address],
     encryptedReward |-> lastReward[address],
     active |-> gameActive[address]]

\* the handles of an answer that are not the sentinel
handlesOf(read) ==
    { read.encryptedBalance, read.encryptedRoll, read.encryptedOutcome,
      read.encryptedReward } \ { ZERO_HASH }

\* the four setters after decryptHandles, applied to what is displayed, from
\* the handles the run has read
decodedFrom(shown, read, decryptedValues) ==
    [balance |->
         IF read.encryptedBalance # ZERO_HASH
         THEN (IF read.encryptedBalance \in DOMAIN decryptedValues
               THEN Some(decryptedValues[read.encryptedBalance])
               ELSE Some(<<"0">>))
         ELSE Some(<<"0">>),
     lastRoll |->
         IF read.encryptedRoll # ZERO_HASH
         THEN (IF /\ read.encryptedRoll \in DOMAIN decryptedValues
                  /\ decryptedValues[read.encryptedRoll] # <<>>
               THEN Some(Number(decryptedValues[read.encryptedRoll]))
               ELSE null)
         ELSE null,
     lastOutcome |->
         IF read.encryptedOutcome # ZERO_HASH
         THEN (IF read.encryptedOutcome \in DOMAIN decryptedValues
               THEN Some(decryptedValues[read.encryptedOutcome] = <<"1">>)
               ELSE shown.lastOutcome)
         ELSE null,
     lastReward |->
         IF read.encryptedReward # ZERO_HASH
         THEN (IF read.encryptedReward \in DOMAIN decryptedValues
               THEN Some(decryptedValues[read.encryptedReward])
               ELSE Some(<<"0">>))
         ELSE Some(<<"0">>),
     gameActive |-> shown.gameActive]

\* the account the client's wallet is connected as
Connected == "alice"

\* refreshPlayerData() is called by a client that can use its wallet and can
\* decrypt: the busy flag is set and the five reads are sent
refreshCalled(address) ==
    /\ Len(inflight) < MaxInflight
    /\ isBusy' = [isBusy EXCEPT !.refresh = TRUE]
    /\ inflight' = Append(inflight, [address |-> address,
                                     awaiting |-> "readContract",
                                     read |-> null])
    /\ UNCHANGED <<ledger, engine, events, lastCall, view, latestRead>>

\* the five reads of the i-th suspended run resolve: setGameActive, then the
\* defaults and the return through finally when every handle is the
\* sentinel, else the run is suspended in decryptHandles
readsResolved(i) ==
    /\ i \in DOMAIN inflight
    /\ inflight[i].awaiting = "readContract"
    /\ LET read == readContract(inflight[i].address)
       IN  /\ latestRead' = Some(read)
           /\ IF handlesOf(read) = {}
              THEN /\ view' = sentinelView(read.active)
                   /\ isBusy' = [isBusy EXCEPT !.refresh = FALSE]
                   /\ inflight' = Without(inflight, i)
              ELSE /\ view' = [view EXCEPT !.gameActive = read.active]
                   /\ isBusy' = isBusy
                   /\ inflight' = [inflight EXCEPT
                                       ![i].awaiting = "decryptHandles",
                                       ![i].read = Some(read)]
    /\ UNCHANGED <<ledger, engine, events, lastCall>>

\* decryptHandles of the i-th suspended run resolves, the request having
\* reached the service at once: the four setters on success, the catch on a
\* throw, and finally the busy flag is cleared
decryptResolved(i) ==
    /\ i \in DOMAIN inflight
    /\ inflight[i].awaiting = "decryptHandles"
    /\ LET address == inflight[i].address
           read == inflight[i].read[1]
           batch == handlesOf(read)
       IN  \E error \in IF serviceErrors(address, batch, 0) = {}
                        THEN { "" }
                        ELSE serviceErrors(address, batch, 0) :
               view' = IF error = ""
                       THEN decodedFrom(view, read, serviceResponse(batch))
                       ELSE view
    /\ isBusy' = [isBusy EXCEPT !.refresh = FALSE]
    /\ inflight' = Without(inflight, i)
    /\ UNCHANGED <<ledger, engine, events, lastCall, latestRead>>

\* the ledger with 1 ether purchases and round starts, and a client whose
\* refreshes are suspended and resumed in any order
NextOverlap ==
    \/ \E sender \in Accounts : buyPoints(sender, ONE_ETHER)
    \/ \E sender \in Accounts : startGame(sender)
    \/ refreshCalled(Connected)
    \/ \E i \in 1..MaxInflight : readsResolved(i)
    \/ \E i \in 1..MaxInflight : decryptResolved(i)

SpecOverlap == Init /\ [][NextOverlap]_vars

(***************************************************************************)
(* Properties                                                              *)
(***************************************************************************)
\* the principals granted on handle h
Grantees(h) == { p \in Accounts \cup { This } : <<h, p>> \in acl }

\* the positions of account a's round events in log
RoundEvents(log, a) ==
    { i \in 1..Len(log) :
        log[i].player = a /\ log[i].name \in { "GameStarted", "GuessSubmitted" } }

\* a's latest round event in log is a GameStarted
RoundPending(log, a) ==
    \E i \in RoundEvents(log, a) :
        /\ log[i].name = "GameStarted"
        /\ \A j \in RoundEvents(log, a) : j <= i

\* how many events called name account a has in log
CountOf(log, a, name) ==
    Cardinality({ i \in 1..Len(log) :
                    log[i].player = a /\ log[i].name = name })

\* the step is a committed call of op
Committed(op) == lastCall'.op = op /\ lastCall'.error = ""

\* C1 as stated: every handle written in an account's record (balance,
\* lastRoll, roundEligible, lastOutcome, lastReward) is granted to the
\* contract and to the account itself.
C1_EveryStoredHandleGrantedToBoth ==
    \A a \in Accounts : \A h \in RecordHandles(a) :
        { This, a } \subseteq Grantees(h)

\* C1 amended: every handle written in an account's record is granted to
\* the contract, and every one except roundEligible is granted to the
\* account itself (startGame makes FHE.allowThis(hasEnough) only).
C1_StoredHandlesGranted ==
    \A a \in Accounts : \A h \in RecordHandles(a) :
        /\ This \in Grantees(h)
        /\ h # roundEligible[a] => a \in Grantees(h)

\* an account whose five handles are all written, the eligibility handle
\* not granted to the account
C1_Witness ==
    \E a \in Accounts :
        /\ Cardinality(RecordHandles(a)) = 5
        /\ a \notin Grantees(roundEligible[a])

\* C2: on every handle of account A's record the only principals granted
\* are the contract and A, and a decryption batch of another account B that
\* names one of A's handles fails with AccessDenied, without any result.
C2_OnlyOwnerDecrypts ==
    /\ \A a \in Accounts : \A h \in RecordHandles(a) :
           Grantees(h) \subseteq { This, a }
    /\ lastCall.op = "userDecrypt" =>
           \A a \in Accounts \ { lastCall.sender } :
               lastCall.args[1] \cap RecordHandles(a) # {} =>
                   lastCall.error = "AccessDenied" /\ lastCall.result = <<>>

\* an account with handles of its own asked for a batch that names them
\* and a handle of the other account, and was denied
C2_Witness ==
    /\ lastCall.op = "userDecrypt"
    /\ lastCall.error = "AccessDenied"
    /\ lastCall.args[1] \cap handlesToDecrypt(lastCall.sender) # {}
    /\ \E a \in Accounts \ { lastCall.sender } :
           lastCall.args[1] \cap handlesToDecrypt(a) # {}

\* C3: for every account, gameActive is true exactly when the account's
\* latest committed startGame has no committed submitGuess after it, and
\* false otherwise, also before any startGame.
C3_ActiveExactlyWhilePending ==
    \A a \in Accounts : gameActive[a] <=> RoundPending(events, a)

\* an account that started a round, resolved it and started another
C3_Witness ==
    \E a \in Accounts :
        /\ gameActive[a]
        /\ CountOf(events, a, "GameStarted") = 2
        /\ CountOf(events, a, "GuessSubmitted") = 1

\* C4: a startGame call made while the caller's gameActive is true fails
\* with "Game already active" (RoundAlreadyActive) and leaves every
\* mapping, the grants and the event log unchanged.
C4_StartWhileActiveFails ==
    [][ (lastCall'.op = "startGame" /\ gameActive[lastCall'.sender]) =>
            /\ lastCall'.error = "Game already active"
            /\ UNCHANGED <<ledger, engine, events>> ]_vars

\* a second startGame was refused and the round is still open
C4_Witness ==
    /\ lastCall.op = "startGame"
    /\ lastCall.error = "Game already active"
    /\ gameActive[lastCall.sender]

\* C5: a submitGuess call made while the caller's gameActive is false fails
\* with "No active game" (NoActiveRound) and changes no mapping, grant or
\* event; an account never has more resolutions than rounds started.
C5_ResolveWhileIdleFails ==
    [][ /\ (lastCall'.op = "submitGuess" /\ ~gameActive[lastCall'.sender]) =>
               /\ lastCall'.error = "No active game"
               /\ UNCHANGED <<ledger, engine, events>>
        /\ \A a \in Accounts :
               CountOf(events', a, "GuessSubmitted")
                   <= CountOf(events', a, "GameStarted") ]_vars

\* a second submitGuess on a round already resolved was refused
C5_Witness ==
    /\ lastCall.op = "submitGuess"
    /\ lastCall.error = "No active game"
    /\ CountOf(events, lastCall.sender, "GuessSubmitted") = 1

\* C6 as stated: after a committed buyPoints the plaintext of the balance
\* is the plaintext before plus floor(msg.value * POINTS_PER_ETH / 1 ether),
\* exactly, a never-written balance counting as 0.
C6_FundAddsExactly ==
    [][ Committed("buyPoints") =>
            LET a == lastCall'.sender
                points == The({ e[2] : e \in { p \in PointsTable :
                                    p[1] = lastCall'.args[1] } }).pointsValue
            IN  Resize(Plain64(ct', balances'[a]), U64Limbs + 1)
                    = AddFull(Plain64(ct, balances[a]),
                              Resize(points, U64Limbs)) ]_vars

\* C7: a startGame by an idle account whose balance is below PLAY_COST
\* commits, leaves the plaintext of the balance unchanged and records the
\* round as not eligible; the record keeps that until the account's next
\* committed startGame; and the submitGuess of a round that is not eligible
\* yields lastReward 0 and leaves the balance unchanged whatever the guess.
C7_UnfundedRoundPaysNothing ==
    [][ LET a == lastCall'.sender
            before == Plain64(ct, balances[a])
            after == Plain64(ct', balances'[a])
        IN  /\ ( /\ lastCall'.op = "startGame"
                 /\ ~gameActive[a]
                 /\ Lt(before, U64(PLAY_COST)) ) =>
                   /\ lastCall'.error = ""
                   /\ after = before
                   /\ ~PlainBool(ct', roundEligible'[a])
            /\ \A b \in Accounts :
                   roundEligible'[b] # roundEligible[b] =>
                       Committed("startGame") /\ a = b
            /\ ( /\ Committed("submitGuess")
                 /\ ~PlainBool(ct, roundEligible[a]) ) =>
                   /\ Plain64(ct', lastReward'[a]) = U64(0)
                   /\ after = before ]_vars

\* a round started on 99 points was resolved with the right guess: the
\* reward is 0 and the balance still 99
C7_Witness ==
    LET a == lastCall.sender
    IN  /\ lastCall.op = "submitGuess" /\ lastCall.error = ""
        /\ ~PlainBool(ct, roundEligible[a])
        /\ lastCall.args[1] = (Plain8(ct, lastRoll[a]) >= 4)
        /\ Plain64(ct, lastReward[a]) = U64(0)
        /\ Plain64(ct, balances[a]) = U64(99)

\* C8: the roll r of a round being resolved is in 1..6, and for every guess
\* and eligibility the committed submitGuess yields lastOutcome true and
\* lastReward WIN_REWARD exactly when the guess equals (r >= 4) and the
\* round is eligible; in every other case lastReward is 0.
C8_WinExactlyWhenRightAndEligible ==
    [][ Committed("submitGuess") =>
            LET a == lastCall'.sender
                r == Plain8(ct, lastRoll[a])
                paid == /\ lastCall'.args[1] = (r >= 4)
                        /\ PlainBool(ct, roundEligible[a])
                reward == Plain64(ct', lastReward'[a])
            IN  /\ r \in 1..6
                /\ ( /\ PlainBool(ct', lastOutcome'[a])
                     /\ reward = U64(WIN_REWARD) ) <=> paid
                /\ ~paid => reward = U64(0) ]_vars

\* roll 4, guess "big", round paid for: outcome true and reward WIN_REWARD
C8_Witness ==
    LET a == lastCall.sender
    IN  /\ lastCall.op = "submitGuess" /\ lastCall.error = ""
        /\ Plain8(ct, lastRoll[a]) = 4
        /\ lastCall.args[1]
        /\ PlainBool(ct, roundEligible[a])
        /\ PlainBool(ct, lastOutcome[a])
        /\ Plain64(ct, lastReward[a]) = U64(WIN_REWARD)

\* C9 as stated: a committed startGame on a balance b >= PLAY_COST leaves
\* the balance b - PLAY_COST, and the committed submitGuess of a round paid
\* for leaves the balance it found plus WIN_REWARD when the guess is right
\* and the balance it found when it is wrong, in exact arithmetic.
C9_RoundArithmeticExact ==
    [][ LET a == lastCall'.sender
            before == Plain64(ct, balances[a])
            after == Plain64(ct', balances'[a])
        IN  /\ (Committed("startGame") /\ Ge(before, U64(PLAY_COST))) =>
                   AddFull(after, U64(PLAY_COST))
                       = Resize(before, U64Limbs + 1)
            /\ ( /\ Committed("submitGuess")
                 /\ PlainBool(ct, roundEligible[a]) ) =>
                   Resize(after, U64Limbs + 1)
                       = IF lastCall'.args[1] = (Plain8(ct, lastRoll[a]) >= 4)
                         THEN AddFull(before, U64(WIN_REWARD))
                         ELSE Resize(before, U64Limbs + 1) ]_vars

\* C10 as stated: a submitGuess in an open round whose proof is rejected
\* fails with InvalidProof and leaves gameActive false.
C10_RejectedProofConsumesRound ==
    [][ \A sender \in Accounts, guess \in BOOLEAN :
            (gameActive[sender] /\ submitGuess(sender, guess, FALSE)) =>
                /\ lastCall'.error = "InvalidProof"
                /\ ~gameActive'[sender] ]_vars

\* C10 amended: a submitGuess in an open round whose proof is rejected
\* fails with InvalidProof and changes no mapping, grant or event:
\* gameActive stays true, so the round can still be resolved with an
\* authentic guess.
C10_RejectedProofKeepsRound ==
    [][ \A sender \in Accounts, guess \in BOOLEAN :
            (gameActive[sender] /\ submitGuess(sender, guess, FALSE)) =>
                /\ lastCall'.error = "InvalidProof"
                /\ UNCHANGED <<ledger, engine, events>>
                /\ requireActive(sender)' ]_vars

\* a guess was rejected for its proof and the round is still open
C10_Witness ==
    /\ lastCall.op = "submitGuess"
    /\ lastCall.error = "InvalidProof"
    /\ gameActive[lastCall.sender]

\* C11: a buyPoints, startGame or submitGuess that fails, a submitGuess
\* with a rejected proof included, leaves every mapping (balances,
\* lastRoll, roundEligible, lastOutcome, lastReward, gameActive), every
\* grant, every ciphertext and the event log as they were before the call.
C11_FailedCallChangesNothing ==
    [][ ( /\ lastCall'.op \in { "buyPoints", "startGame", "submitGuess" }
          /\ lastCall'.error # "" ) =>
            UNCHANGED <<ledger, engine, events>> ]_vars

\* a purchase refused for its size by an account that holds a balance
C11_Witness ==
    /\ lastCall.op = "buyPoints"
    /\ lastCall.error = "Points overflow"
    /\ balances[lastCall.sender] # ZERO_HASH

\* for every msg.value of the model: floor(value * POINTS_PER_ETH / 1 ether)
\* in unbounded arithmetic, which is floor(value / 10^12), and whether
\* value * POINTS_PER_ETH fits 256 bits
ExactPointsTable ==
    { <<value, [points |-> Div(value, WeiPerPoint),
                fits |-> FitsIn(MulFull(value, U256(POINTS_PER_ETH)),
                                U256Limbs)]>> :
          value \in MsgValues \cup LargeMsgValues }

ExactPoints(value) ==
    The({ e[2] : e \in { p \in ExactPointsTable : p[1] = value } })

\* C12 as stated: buyPoints with msg.value > 0 fails with "Amount too
\* small" (AmountTooSmall) when floor(msg.value * POINTS_PER_ETH / 1 ether)
\* is 0 and with "Points overflow" (PointsOverflow) when it exceeds 2^64-1,
\* both without any change; in every other case it commits.
C12_FundErrorsByPoints ==
    [][ lastCall'.op = "buyPoints" =>
        \A value \in MsgValues :
            (~IsZero(value) /\ buyPoints(lastCall'.sender, value)) =>
                IF IsZero(ExactPoints(value).points)
                THEN /\ lastCall'.error = "Amount too small"
                     /\ UNCHANGED <<ledger, engine, events>>
                ELSE IF ~FitsIn(ExactPoints(value).points, U64Limbs)
                THEN /\ lastCall'.error = "Points overflow"
                     /\ UNCHANGED <<ledger, engine, events>>
                ELSE lastCall'.error = "" ]_vars

\* C12 amended: as stated, except that when the points exceed 2^64-1 the
\* call fails with "Points overflow" only if msg.value * POINTS_PER_ETH fits
\* 256 bits, and with the arithmetic panic 0x11 if it does not; no failure
\* changes anything.
C12_FundErrorsByPointsOrPanic ==
    [][ lastCall'.op = "buyPoints" =>
        \A value \in MsgValues :
            (~IsZero(value) /\ buyPoints(lastCall'.sender, value)) =>
                IF IsZero(ExactPoints(value).points)
                THEN /\ lastCall'.error = "Amount too small"
                     /\ UNCHANGED <<ledger, engine, events>>
                ELSE IF ~FitsIn(ExactPoints(value).points, U64Limbs)
                THEN /\ lastCall'.error =
                            IF ExactPoints(value).fits
                            THEN "Points overflow"
                            ELSE "Panic(0x11)"
                     /\ UNCHANGED <<ledger, engine, events>>
                ELSE lastCall'.error = "" ]_vars

\* a purchase of 2^255 wei ended in the arithmetic panic
C12_Witness ==
    /\ lastCall.op = "buyPoints"
    /\ lastCall.error = "Panic(0x11)"

\* what a call shows in plaintext, computed from the flags and the event
\* log before it and from its public inputs alone: its error, the flags and
\* the event log after it
PublicOutcome(op, sender, error, event) ==
    [error |-> error,
     active |-> IF error # "" THEN gameActive
                ELSE IF op = "startGame" THEN [gameActive EXCEPT ![sender] = TRUE]
                ELSE IF op = "submitGuess" THEN [gameActive EXCEPT ![sender] = FALSE]
                ELSE gameActive,
     log |-> IF error # "" THEN events ELSE Append(events, event)]

\* the error of a purchase, from msg.value alone
PublicFundError(value) ==
    IF IsZero(value) THEN "No ETH sent"
    ELSE IF ~ExactPoints(value).fits THEN "Panic(0x11)"
    ELSE IF IsZero(ExactPoints(value).points) THEN "Amount too small"
    ELSE IF ~FitsIn(ExactPoints(value).points, U64Limbs) THEN "Points overflow"
    ELSE ""

\* what the step shows in plaintext
Observed == [error |-> lastCall'.error, active |-> gameActive', log |-> events']

\* C13: what a call shows in plaintext (whether it fails and how, the
\* gameActive flags and the events after it) is determined by the flags and
\* events before it, the caller, msg.value and the validity of the proof:
\* not by the plaintexts behind balance, lastRoll and roundEligible, and
\* not by the guess.  Two runs that start with the same flags and make the
\* same calls therefore show the same results, flags and events, step by
\* step.
C13_PlaintextOutcomeIgnoresSecrets ==
    [][ LET sender == lastCall'.sender
        IN  /\ lastCall'.op = "buyPoints" =>
                   \A value \in SecretMsgValues :
                       buyPoints(sender, value) =>
                           Observed = PublicOutcome("buyPoints", sender,
                               PublicFundError(value),
                               [name |-> "PointsPurchased", player |-> sender,
                                ethAmount |-> value,
                                points |-> ExactPoints(value).points])
            /\ lastCall'.op = "startGame" =>
                   ( startGame(sender) =>
                         Observed = PublicOutcome("startGame", sender,
                             IF gameActive[sender]
                             THEN "Game already active" ELSE "",
                             [name |-> "GameStarted", player |-> sender]) )
            /\ lastCall'.op = "submitGuess" =>
                   \A guess \in BOOLEAN, proofValid \in BOOLEAN :
                       submitGuess(sender, guess, proofValid) =>
                           Observed = PublicOutcome("submitGuess", sender,
                               IF ~gameActive[sender] THEN "No active game"
                               ELSE IF ~proofValid THEN "InvalidProof"
                               ELSE "",
                               [name |-> "GuessSubmitted", player |-> sender])
      ]_vars

\* two rounds are open, one started on a balance that covered PLAY_COST and
\* one on a balance that did not: both calls succeeded alike
C13_Witness ==
    /\ lastCall.op = "startGame" /\ lastCall.error = ""
    /\ ~PlainBool(ct, roundEligible[lastCall.sender])
    /\ \E b \in Accounts :
           /\ gameActive[b]
           /\ PlainBool(ct, roundEligible[b])

\* C14: a decryption batch that reaches the service durationDays or more
\* after the start of its delegation fails with AuthorizationExpired, a
\* batch with a handle not granted to the requester fails with
\* AccessDenied (a batch that is both fails with one of the two), and a
\* batch succeeds only inside [start, start + duration) with every handle
\* granted to the requester.
C14_WindowAndGrantsDecide ==
    lastCall.op = "userDecrypt" =>
        LET granted == \A h \in lastCall.args[1] :
                           <<h, lastCall.sender>> \in acl
            expired == lastCall.args[2] >= durationDays
            error == lastCall.error
        IN  /\ (expired /\ granted) => error = "AuthorizationExpired"
            /\ (~expired /\ ~granted) => error = "AccessDenied"
            /\ (expired /\ ~granted) =>
                   error \in { "AuthorizationExpired", "AccessDenied" }
            /\ error = "" <=> (~expired /\ granted)

\* a batch of the requester's own handles arrived after the window
C14_Witness ==
    /\ lastCall.op = "userDecrypt"
    /\ lastCall.error = "AuthorizationExpired"
    /\ lastCall.args[2] = durationDays
    /\ \A h \in lastCall.args[1] : <<h, lastCall.sender>> \in acl

C16_BatchAllOrNothing ==
    lastCall.op = "userDecrypt" =>
        IF lastCall.error = ""
        THEN DOMAIN lastCall.result = lastCall.args[1]
        ELSE lastCall.result = <<>>

\* inside the window, a batch with a handle granted to the requester and a
\* handle not granted to it was denied
C16_Witness ==
    /\ lastCall.op = "userDecrypt"
    /\ lastCall.error = "AccessDenied"
    /\ lastCall.args[2] < durationDays
    /\ \E h \in lastCall.args[1] : <<h, lastCall.sender>> \in acl
    /\ \E h \in lastCall.args[1] : <<h, lastCall.sender>> \notin acl

\* C17: in every reachable state, the plaintext of an account's lastRoll
\* is an 8-bit value from 1 to 6 whenever lastRoll is not the sentinel, and
\* after a committed startGame the caller's lastRoll is not the sentinel.
C17_RollBetweenOneAndSix ==
    /\ \A a \in Accounts :
           lastRoll[a] # ZERO_HASH =>
               /\ ct[lastRoll[a]].t = "euint8"
               /\ Plain8(ct, lastRoll[a]) \in 1..6
    /\ (lastCall.op = "startGame" /\ lastCall.error = "") =>
           lastRoll[lastCall.sender] # ZERO_HASH

\* one account rolled the lowest face and the other the highest
C17_Witness ==
    \E a, b \in Accounts :
        /\ lastRoll[a] # ZERO_HASH /\ Plain8(ct, lastRoll[a]) = 1
        /\ lastRoll[b] # ZERO_HASH /\ Plain8(ct, lastRoll[b]) = 6

\* the log and the handle space of the model have room for a transaction
\* that makes n handles
HasRoom(n) == Len(events) < MaxTx /\ nextHandle + n - 1 <= MaxHandle

\* C18: no account is ever stuck. While an account is idle, a startGame of
\* it never fails and (the model's log and handles permitting) commits and
\* opens a round; while its round is pending, a submitGuess of it with an
\* authentic guess never fails and commits and closes the round, whatever
\* the guess.
C18_NoStuckState ==
    /\ [][ /\ (lastCall'.op = "startGame" /\ ~gameActive[lastCall'.sender]) =>
                  lastCall'.error = "" /\ gameActive'[lastCall'.sender]
           /\ \A a \in Accounts, guess \in BOOLEAN :
                  (gameActive[a] /\ submitGuess(a, guess, TRUE)) =>
                      lastCall'.error = "" /\ ~gameActive'[a] ]_vars
    /\ [](\A a \in Accounts :
              IF ~gameActive[a]
              THEN HasRoom(7) => ENABLED startGame(a)
              ELSE HasRoom(10) =>
                       \A guess \in BOOLEAN :
                           ENABLED submitGuess(a, guess, TRUE))

\* both accounts are idle, one of them again after a round that had not
\* collected its cost, with room to start another
C18_Witness ==
    \E a \in Accounts, b \in Accounts :
        /\ a # b
        /\ ~gameActive[a]
        /\ CountOf(events, a, "GuessSubmitted") = 1
        /\ ~PlainBool(ct, roundEligible[a])
        /\ ~gameActive[b]
        /\ HasRoom(7)

\* C19: a buyPoints of 1 ether commits whether the caller's round is
\* pending or not, and it changes the caller's balance handle only:
\* gameActive, lastRoll, roundEligible, lastOutcome and lastReward of every
\* account and the balance of every other account are unchanged, no
\* ciphertext made before is changed, no grant is removed, and the grants
\* added are on the caller's new balance handle, to the contract and the
\* caller.
C19_FundChangesOnlyBalance ==
    [][ lastCall'.op = "buyPoints" =>
            LET sender == lastCall'.sender
            IN  /\ lastCall'.error = ""
                /\ gameActive' = gameActive
                /\ lastRoll' = lastRoll
                /\ roundEligible' = roundEligible
                /\ lastOutcome' = lastOutcome
                /\ lastReward' = lastReward
                /\ \A a \in Accounts \ { sender } : balances'[a] = balances[a]
                /\ balances'[sender] \notin 0..Len(ct)
                /\ SubSeq(ct', 1, Len(ct)) = ct
                /\ acl \subseteq acl'
                /\ acl' \ acl = { <<balances'[sender], This>>,
                                  <<balances'[sender], sender>> } ]_vars

\* an account bought points while its round, opened on a balance that did
\* not cover PLAY_COST, was pending
C19_Witness ==
    /\ lastCall.op = "buyPoints" /\ lastCall.error = ""
    /\ gameActive[lastCall.sender]
    /\ ~PlainBool(ct, roundEligible[lastCall.sender])
    /\ ~IsZero(Plain64(ct, balances[lastCall.sender]))

\* the plaintexts and the flag of account a's record
PlainRecord(a) ==
    [balance |-> Plain64(ct, balances[a]),
     lastRoll |-> Plain8(ct, lastRoll[a]),
     roundEligible |-> PlainBool(ct, roundEligible[a]),
     lastOutcome |-> PlainBool(ct, lastOutcome[a]),
     lastReward |-> Plain64(ct, lastReward[a]),
     gameActive |-> gameActive[a]]

\* the handles of account a's record and what is granted on them
HandleRecord(a) ==
    [balance |-> balances[a], lastRoll |-> lastRoll[a],
     roundEligible |-> roundEligible[a], lastOutcome |-> lastOutcome[a],
     lastReward |-> lastReward[a],
     grants |-> { g \in acl : g[1] \in RecordHandles(a) }]

\* the records a call with receipt call and public event event may leave
\* to a caller whose record was rec, by the plaintext rules of the three
\* transitions: a function of the caller's own record and the call
RecordsAfter(call, event, rec) ==
    IF call.error # "" THEN { rec }
    ELSE IF call.op = "buyPoints"
    THEN { [rec EXCEPT !.balance =
                AddWrap(rec.balance, Resize(event.points, U64Limbs))] }
    ELSE IF call.op = "startGame"
    THEN { [rec EXCEPT
                !.gameActive = TRUE,
                !.roundEligible = Ge(rec.balance, U64(PLAY_COST)),
                !.balance = IF Ge(rec.balance, U64(PLAY_COST))
                            THEN SubWrap(rec.balance, U64(PLAY_COST))
                            ELSE rec.balance,
                !.lastRoll = roll] : roll \in 1..6 }
    ELSE { [rec EXCEPT
                !.gameActive = FALSE,
                !.lastOutcome = (call.args[1] = (rec.lastRoll >= 4)),
                !.lastReward =
                    IF call.args[1] = (rec.lastRoll >= 4) /\ rec.roundEligible
                    THEN U64(WIN_REWARD) ELSE U64(0),
                !.balance =
                    AddWrap(rec.balance,
                            IF /\ call.args[1] = (rec.lastRoll >= 4)
                               /\ rec.roundEligible
                            THEN U64(WIN_REWARD) ELSE U64(0))] }

\* whether a call of op by a caller whose flag is active can fail with error
FailsBy(op, error, active) ==
    \/ op = "startGame" /\ error = "Game already active" /\ active
    \/ op = "submitGuess" /\ error = "No active game" /\ ~active
    \/ op = "submitGuess" /\ error = "InvalidProof" /\ active

\* C20: a transition by account A leaves the handles, the plaintexts and the
\* flag of every other account's record as they were, with the grants on
\* those handles; and what it does to A's own plaintexts and flag, and
\* whether it fails, is determined by A's own record and the call.  So a
\* transition by A and one by B give A and B the same plaintexts and flags
\* in either order (for the same dice).
C20_AccountsAreIndependent ==
    [][ \A A \in Accounts :
          ( /\ lastCall'.op \in { "buyPoints", "startGame", "submitGuess" }
            /\ lastCall'.sender = A ) =>
            /\ \A B \in Accounts \ { A } :
                   /\ HandleRecord(B)' = HandleRecord(B)
                   /\ PlainRecord(B)' = PlainRecord(B)
            /\ PlainRecord(A)' \in
                   RecordsAfter(lastCall',
                                IF events' # events
                                THEN events'[Len(events')]
                                ELSE [points |-> U256(0)],
                                PlainRecord(A))
            /\ lastCall'.op # "buyPoints" =>
                   ( lastCall'.error = "" =>
                         (gameActive[A] <=> lastCall'.op = "submitGuess") )
            /\ (lastCall'.op # "buyPoints" /\ lastCall'.error # "") =>
                   FailsBy(lastCall'.op, lastCall'.error, gameActive[A])
      ]_vars

\* one account resolved its round while the round of the other account,
\* which holds a balance, a roll and an eligibility, stayed pending
C20_Witness ==
    \E B \in Accounts \ { lastCall.sender } :
        /\ lastCall.op = "submitGuess" /\ lastCall.error = ""
        /\ gameActive[B]
        /\ Cardinality(RecordHandles(B)) = 3
        /\ Cardinality(RecordHandles(lastCall.sender)) = 5

\* C21: grants are only ever added. Every step keeps every grant of the
\* registry and every ciphertext made before, so an account granted on a
\* handle, one that its record no longer names included, passes the
\* service's verification for that handle in every later state.
C21_GrantsAppendOnly ==
    [][ /\ acl \subseteq acl'
        /\ Len(ct') >= Len(ct)
        /\ SubSeq(ct', 1, Len(ct)) = ct
        /\ \A a \in Accounts : \A h \in 1..Len(ct) :
               serviceVerifies(a, { h }) => serviceVerifies(a, { h })' ]_vars

\* an account is still granted on two handles its record no longer names,
\* earlier balances of it
C21_Witness ==
    \E a \in Accounts :
        Cardinality({ h \in 1..Len(ct) :
                        <<h, a>> \in acl /\ h \notin RecordHandles(a) }) >= 2

decryptedRoll(a) ==
    Number(serviceResponse({ lastRoll[a] })[lastRoll[a]])

\* C23: while an account's round is pending its lastRoll is written and
\* granted to it, and a decryption request of it for its own batch, which
\* names lastRoll, succeeds and returns the roll; and a submitGuess of it
\* that commits with the guess big = (decrypted roll >= 4) in a round that
\* is eligible leaves lastOutcome true and lastReward equal to WIN_REWARD.
C23_DecryptedRollWins ==
    /\ [](\A a \in Accounts :
              gameActive[a] =>
                  /\ lastRoll[a] # ZERO_HASH
                  /\ isGranted(lastRoll[a], a)
                  /\ ( /\ lastCall.op = "userDecrypt"
                       /\ lastCall.sender = a
                       /\ lastCall.args[1] = handlesToDecrypt(a) ) =>
                         /\ lastCall.error = ""
                         /\ Number(lastCall.result[lastRoll[a]])
                                = Plain8(ct, lastRoll[a]))
    /\ [][ \A a \in Accounts :
             ( /\ Committed("submitGuess")
               /\ lastCall'.sender = a
               /\ lastCall'.args[1] = (decryptedRoll(a) >= 4)
               /\ PlainBool(ct, roundEligible[a]) ) =>
                 /\ PlainBool(ct', lastOutcome'[a])
                 /\ Plain64(ct', lastReward'[a]) = U64(WIN_REWARD) ]_vars

\* an account that had bought points guessed small on a roll below four
\* and was paid WIN_REWARD
C23_Witness ==
    /\ lastCall.op = "submitGuess" /\ lastCall.error = ""
    /\ lastCall.args[1] = FALSE
    /\ Plain8(ct, lastRoll[lastCall.sender]) <= 3
    /\ PlainBool(ct, roundEligible[lastCall.sender])
    /\ Plain64(ct, lastReward[lastCall.sender]) = U64(WIN_REWARD)

\* C24: a decryption request, answered or refused, changes no field of any
\* record, no ciphertext, no grant and no event; an account can send one for
\* its own handles and be answered whether its round is pending or not; and
\* right after one, every idle account can start a round, every account
\* with a pending round can resolve it (the model's log and handles
\* permitting), and a purchase, a start by an idle account or an authentic
\* guess by an account with a pending round that follows commits.
C24_DecryptIsReadOnly ==
    /\ [][ /\ lastCall'.op = "userDecrypt" =>
                  /\ UNCHANGED <<balances, lastRoll, lastOutcome, lastReward,
                                 roundEligible, gameActive>>
                  /\ UNCHANGED <<ct, nextHandle, acl, events>>
           /\ lastCall.op = "userDecrypt" =>
                  /\ lastCall'.op = "buyPoints" => lastCall'.error = ""
                  /\ (lastCall'.op = "startGame"
                          /\ ~gameActive[lastCall'.sender]) =>
                         lastCall'.error = ""
                  /\ (lastCall'.op = "submitGuess"
                          /\ gameActive[lastCall'.sender]) =>
                         lastCall'.error = "" ]_vars
    /\ [](\A a \in Accounts :
              handlesToDecrypt(a) # {} =>
                  ENABLED (/\ userDecrypt(a, handlesToDecrypt(a), 0)
                           /\ lastCall'.error = ""))
    /\ [](lastCall.op = "userDecrypt" =>
              \A a \in Accounts :
                  /\ (~gameActive[a] /\ HasRoom(7)) =>
                         ENABLED (startGame(a) /\ lastCall'.error = "")
                  /\ (gameActive[a] /\ HasRoom(10)) =>
                         ENABLED (/\ submitGuess(a, TRUE, TRUE)
                                  /\ lastCall'.error = ""))

\* an account whose round is pending was answered for a batch that names
\* its roll, with room left to resolve the round
C24_Witness ==
    /\ lastCall.op = "userDecrypt" /\ lastCall.error = ""
    /\ gameActive[lastCall.sender]
    /\ lastRoll[lastCall.sender] \in lastCall.args[1]
    /\ HasRoom(10)

\* what a step credits to account a's balance and what it debits from it,
\* by the accounting rule: the points of a purchase, WIN_REWARD for an
\* eligible round resolved with the matching guess, PLAY_COST for a round
\* started on a balance that covers it
Credited(a) ==
    IF lastCall'.sender # a \/ lastCall'.error # "" THEN U64(0)
    ELSE IF lastCall'.op = "buyPoints"
    THEN Resize(events'[Len(events')].points, U64Limbs)
    ELSE IF /\ lastCall'.op = "submitGuess"
            /\ PlainBool(ct, roundEligible[a])
            /\ lastCall'.args[1] = (Plain8(ct, lastRoll[a]) >= 4)
    THEN U64(WIN_REWARD)
    ELSE U64(0)

Debited(a) ==
    IF /\ lastCall'.sender = a
       /\ Committed("startGame")
       /\ Ge(Plain64(ct, balances[a]), U64(PLAY_COST))
    THEN U64(PLAY_COST)
    ELSE U64(0)

\* C25 as stated: every account's balance is the points credited by its
\* purchases, minus PLAY_COST for each round started on a balance that
\* covered it, plus WIN_REWARD for each eligible round resolved with the
\* matching guess, in exact arithmetic: the balance starts at 0 and every
\* step leaves it at what it was plus what the step credits minus what it
\* debits, without wrap-around.
C25_BalanceIsExactAccount ==
    [][ \A a \in Accounts :
            AddFull(Plain64(ct', balances'[a]), Debited(a))
                = AddFull(Plain64(ct, balances[a]), Credited(a)) ]_vars

\* C26 as stated: whenever an account's lastOutcome and lastReward are
\* written, lastOutcome true goes with lastReward equal to WIN_REWARD and
\* lastOutcome false with lastReward equal to 0, also for a round whose cost
\* was not collected.
C26_OutcomeAgreesWithReward ==
    \A a \in Accounts :
        (lastOutcome[a] # ZERO_HASH /\ lastReward[a] # ZERO_HASH) =>
            Plain64(ct, lastReward[a])
                = IF PlainBool(ct, lastOutcome[a])
                  THEN U64(WIN_REWARD) ELSE U64(0)

\* C26 amended: whenever an account's lastOutcome and lastReward are
\* written, lastReward is 0 or WIN_REWARD, lastReward equal to WIN_REWARD
\* goes with lastOutcome true and lastOutcome false with lastReward 0; and
\* while the account is idle, so that roundEligible is still that of the
\* round resolved last, lastReward is WIN_REWARD exactly when lastOutcome is
\* true and the round was eligible: a right guess in a round whose cost was
\* not collected shows lastOutcome true with lastReward 0.
C26_RewardIsOutcomeAndEligible ==
    \A a \in Accounts :
        (lastOutcome[a] # ZERO_HASH /\ lastReward[a] # ZERO_HASH) =>
            LET reward == Plain64(ct, lastReward[a])
                outcome == PlainBool(ct, lastOutcome[a])
            IN  /\ reward \in { U64(0), U64(WIN_REWARD) }
                /\ reward = U64(WIN_REWARD) => outcome
                /\ ~outcome => reward = U64(0)
                /\ ~gameActive[a] =>
                       ( reward = U64(WIN_REWARD) <=>
                             (outcome /\ PlainBool(ct, roundEligible[a])) )

\* an idle account shows lastOutcome true and lastReward 0 after a round
\* started without points
C26_Witness ==
    \E a \in Accounts :
        /\ ~gameActive[a]
        /\ lastOutcome[a] # ZERO_HASH
        /\ PlainBool(ct, lastOutcome[a])
        /\ ~PlainBool(ct, roundEligible[a])
        /\ Plain64(ct, lastReward[a]) = U64(0)

\* C27: a committed startGame changes the caller's gameActive, balance,
\* roundEligible and lastRoll and nothing else of any record: lastOutcome
\* and lastReward keep their handles, every ciphertext made before is kept,
\* and the new grants are on the three new handles.  So while a round is
\* pending, lastOutcome and lastReward, when written, are handles made
\* before that round was started: those of the round resolved before.
C27_StartKeepsLastOutcome ==
    /\ [][ \A a \in Accounts :
             (Committed("startGame") /\ lastCall'.sender = a) =>
                 /\ lastOutcome' = lastOutcome
                 /\ lastReward' = lastReward
                 /\ gameActive' = [gameActive EXCEPT ![a] = TRUE]
                 /\ \A b \in Accounts \ { a } :
                        /\ balances'[b] = balances[b]
                        /\ roundEligible'[b] = roundEligible[b]
                        /\ lastRoll'[b] = lastRoll[b]
                 /\ { balances'[a], roundEligible'[a], lastRoll'[a] }
                        \cap (0..Len(ct)) = {}
                 /\ SubSeq(ct', 1, Len(ct)) = ct
                 /\ acl \subseteq acl'
                 /\ { g[1] : g \in acl' \ acl } =
                        { balances'[a], roundEligible'[a], lastRoll'[a] }
         ]_vars
    /\ [](\A a \in Accounts :
              gameActive[a] =>
                  /\ lastOutcome[a] # ZERO_HASH =>
                         lastOutcome[a] < roundEligible[a]
                  /\ lastReward[a] # ZERO_HASH =>
                         lastReward[a] < roundEligible[a])

\* an account started a second round: its lastOutcome and lastReward are
\* those of its first
C27_Witness ==
    /\ lastCall.op = "startGame" /\ lastCall.error = ""
    /\ gameActive[lastCall.sender]
    /\ lastOutcome[lastCall.sender] # ZERO_HASH
    /\ lastReward[lastCall.sender] # ZERO_HASH

\* what a client shows that has displayed the answer of one read in full
shownFor(read) ==
    IF handlesOf(read) = {}
    THEN sentinelView(read.active)
    ELSE decodedFrom([view EXCEPT !.gameActive = read.active], read,
                     serviceResponse(handlesOf(read)))

\* the refresh flag is false while a run is suspended
BusyCleared == inflight # <<>> /\ ~isBusy.refresh

\* every run has returned and what is shown is not the most recent answer
StaleShown ==
    /\ inflight = <<>>
    /\ latestRead # null
    /\ view # shownFor(latestRead[1])

\* C28: when refreshPlayerData runs overlap, then once all of them have
\* returned the displayed gameActive, balance, lastRoll, lastOutcome and
\* lastReward are those of the most recent answer the ledger gave to a read,
\* and the refresh busy flag is true whenever a run has not returned
C28_OverlappingRefreshesAgree == ~StaleShown /\ ~BusyCleared

====
